---- MODULE Spec2Model ----
(***************************************************************************)
(* Model of ShredderEngine (src/deldown-Shredder.py, lines 24-121): one    *)
(* call of shred_file over a small directory.  Each action is one step of  *)
(* the method body; the except clause is one action enabled wherever the   *)
(* body performs I/O or calls the progress sink.                           *)
(***************************************************************************)
EXTENDS Integers, Sequences, FiniteSets, TLC

(* ---------------- bounds of the model ---------------- *)
MaxSize == 3
MaxChunk == 2
ConcMaxSize == 1

(* ---------------- program constants ---------------- *)
QuickPasses == 1
SecurePasses == 3
DodPasses == 7
GutmannPasses == 35
DefaultPasses == 3
PatternCycle == 3
ZeroByte == 0
OneByte == 255
RenameRounds == 3
NameLen == 32
DefaultChunk == 1048576

(* Characters are numbers: 0..15 are the digits of '0123456789abcdef',    *)
(* anything above 15 is a character outside that alphabet.                 *)
HexDigits == 0..15

(* Outcomes of random.randint(0, 255) the model samples.                   *)
RandomBytes == {90, 255}
(* Outcomes of ''.join(random.choices('0123456789abcdef', k=32)) the       *)
(* model samples: the all-'0' and the all-'f' name.                        *)
SampleDigits == {0, 15}
RandomNames == {[k \in 1..NameLen |-> c] : c \in SampleDigits}

(* File names of the modelled directory: one name outside the hex          *)
(* alphabet and the sampled 32-digit names.                                *)
PlainName == <<16, 16, 16>>
HexName == [k \in 1..NameLen |-> 0]
PlainName2 == <<17, 17, 17>>
Names == {PlainName, PlainName2} \cup RandomNames

(* A path is a parent directory and a file name.                           *)
Parents == {"/a", "/b"}
HomeDir == "/a"
dirname(path) == path.parent
join(directory, name) == [parent |-> directory, name |-> name]
AllPaths == {join(d, n) : d \in Parents, n \in Names}

(* Directory entries: nothing, a directory, or a regular file (its id).    *)
NoEntry == "none"
Directory == "dir"
TargetFile == "file1"
OtherFile == "file2"
InitialBytes == {65}

Methods == {"quick", "secure", "dod", "gutmann", "other"}

(* the values of the method menu (line 440) and the first word of each    *)
(* (lines 518, 657)                                                        *)
MenuValues == {"quick (1 Durchgang)", "secure (3 Durchgaenge)", "dod (7 Durchgaenge)",
               "gutmann (35 Durchgaenge)"}
FirstWord(v) ==
  CASE v = "quick (1 Durchgang)" -> "quick"
    [] v = "secure (3 Durchgaenge)" -> "secure"
    [] v = "dod (7 Durchgaenge)" -> "dod"
    [] v = "gutmann (35 Durchgaenge)" -> "gutmann"
    [] OTHER -> v

(* the window when no DeldownShredder is part of the run *)
NoApp == [files |-> <<>>, method_var |-> "secure", is_shredding |-> FALSE,
          menu_enabled |-> TRUE, worker |-> "none", method |-> "secure", idx |-> 0,
          events |-> <<>>, disk |-> <<>>, shredded |-> <<>>, returned |-> <<>>,
          started |-> {}, marked |-> <<>>, completions |-> 0,
          threads |-> 0, rejected |-> FALSE]

VARIABLES
  filepath, method, chunk_size, has_callback,   \* arguments of shred_file
  io_faults, sink_raises,                       \* may the OS calls / the sink raise
  dir, dir0, data,                              \* directory now / at call time, file content
  pc, result, failed_at,                        \* position in the body, return value
  file_size, passes, pass_num, bytes_written, current_chunk, pattern,
  fopen, fpos,                                  \* file handle of the current pass
  i, current_path,                              \* rename loop
  writes, flushes, fsyncs, passes_done,         \* what the current pass did so far
  progress, renames, removed,                   \* calls made to the sink, os.rename, os.remove
  app,                                          \* the DeldownShredder window and its worker thread
  self, other                                   \* the thread that runs, the call of the other thread

vars == <<filepath, method, chunk_size, has_callback, io_faults, sink_raises,
          dir, dir0, data, pc, result,
          failed_at, file_size, passes, pass_num, bytes_written, current_chunk,
          pattern, fopen, fpos, i, current_path, writes, flushes, fsyncs,
          passes_done, progress, renames, removed, self, other, app>>

(* what lies outside the running call *)
outside == <<self, other, app>>

args == <<filepath, method, chunk_size, has_callback, io_faults, sink_raises, dir0,
          outside>>
locals == <<file_size, passes, pass_num, bytes_written, current_chunk, pattern>>
handle == <<fopen, fpos>>
chain == <<i, current_path>>
passlog == <<writes, flushes, fsyncs>>
calls == <<progress, renames, removed>>

Min(a, b) == IF a < b THEN a ELSE b
Max(a, b) == IF a > b THEN a ELSE b

(* variant: any existing entry passes for a regular file *)
IsFileAnyEntry(e) == e # NoEntry

IsFile(e) == e \in {TargetFile, OtherFile}

(* PATTERNS and PATTERNS.get(method, 3) *)
PATTERNS ==
  [m \in {"quick", "secure", "dod", "gutmann"} |->
     CASE m = "quick" -> QuickPasses
       [] m = "secure" -> SecurePasses
       [] m = "dod" -> DodPasses
       [] m = "gutmann" -> GutmannPasses]

(* variant: an unrecognized method falls back to the quick table entry *)
PassesForQuickDefault(m) == IF m \in DOMAIN PATTERNS THEN PATTERNS[m] ELSE QuickPasses

PassesFor(m) == IF m \in DOMAIN PATTERNS THEN PATTERNS[m] ELSE DefaultPasses

(* variant: the zero and the one pattern are exchanged *)
generate_pattern_swapped(size, p) ==
  IF p % PatternCycle = 0 THEN {[k \in 1..size |-> OneByte]}
  ELSE IF p % PatternCycle = 1 THEN {[k \in 1..size |-> ZeroByte]}
  ELSE [1..size -> RandomBytes]

(* generate_pattern(size, pass_num): the set of buffers it can return.     *)
generate_pattern(size, p) ==
  IF p % PatternCycle = 0 THEN {[k \in 1..size |-> ZeroByte]}
  ELSE IF p % PatternCycle = 1 THEN {[k \in 1..size |-> OneByte]}
  ELSE [1..size -> RandomBytes]

(* variant: the last chunk is not clipped to the remaining bytes *)
ChunkLenUnclipped(c, size, written) == c

(* min(chunk_size, file_size - bytes_written) *)
ChunkLen(c, size, written) == Min(c, size - written)

(* variant: the completed passes are left out of the numerator *)
TotalProgressWithinPass(p, n, size, written) ==
  [num |-> written * 100, den |-> n * size, pass |-> p + 1, of |-> n]

(* variant: the pass index is counted from 1 in the numerator *)
TotalProgressOneBased(p, n, size, written) ==
  [num |-> ((p + 1) * size + written) * 100, den |-> n * size, pass |-> p + 1, of |-> n]

(* total_progress as an exact fraction num/den, with the status label.     *)
TotalProgress(p, n, size, written) ==
  [num |-> (p * size + written) * 100, den |-> n * size, pass |-> p + 1, of |-> n]

FinalUpdate == [num |-> 100, den |-> 1, pass |-> 0, of |-> 0]

(* f.write(pattern) at the handle's position *)
WriteAt(d, pos, buf) ==
  [k \in 1..Max(Len(d), pos + Len(buf)) |->
     IF k > pos /\ k <= pos + Len(buf) THEN buf[k - pos] ELSE d[k]]

(* os.rename(src, dst) succeeds: the source exists and the target is not a *)
(* directory.  An existing regular file at the target is replaced.         *)
CanRename(d, src, dst) == d[src] # NoEntry /\ (src = dst \/ d[dst] # Directory)

(* variant: the source entry is left in place (a copy, not a move) *)
RenameInKeepSource(d, src, dst) ==
  IF src = dst THEN d
  ELSE [d EXCEPT ![dst] = d[src]]

RenameIn(d, src, dst) ==
  IF src = dst THEN d
  ELSE [d EXCEPT ![dst] = d[src], ![src] = NoEntry]

(* variant: the target keeps the file's own name instead of the drawn one *)
NewPathKeepsName(path, new_name) == join(dirname(path), path.name)

(* variant: the target is the bare name, resolved in the working directory *)
NewPathInWorkingDir(path, new_name) == join(HomeDir, new_name)

(* lines 102 and 107: directory = os.path.dirname(filepath);               *)
(* new_path = os.path.join(directory, new_name)                            *)
NewPath(path, new_name) == join(dirname(path), new_name)

(* os.remove(path) succeeds on a regular file only.                        *)
CanRemove(d, path) == IsFile(d[path])

RemoveIn(d, path) == [d EXCEPT ![path] = NoEntry]

Init ==
  /\ filepath \in {join(HomeDir, n) : n \in {PlainName, HexName}}
  /\ method \in Methods
  /\ chunk_size \in 1..MaxChunk
  /\ has_callback \in BOOLEAN
  /\ io_faults = TRUE
  /\ sink_raises = has_callback
  /\ \E f \in [Names -> {NoEntry, Directory, TargetFile, OtherFile}] :
       /\ f[filepath.name] # OtherFile
       /\ f[PlainName2] = NoEntry
       /\ \A n \in Names \ {filepath.name} : f[n] # TargetFile
       /\ dir = [p \in AllPaths |->
                   IF dirname(p) = dirname(filepath) THEN f[p.name] ELSE NoEntry]
  /\ dir0 = dir
  /\ \E s \in 0..MaxSize : data \in [1..s -> InitialBytes]
  /\ pc = "idle"
  /\ result = "pending"
  /\ failed_at = "none"
  /\ file_size = 0
  /\ passes = 0
  /\ pass_num = 0
  /\ bytes_written = 0
  /\ current_chunk = 0
  /\ pattern = <<>>
  /\ fopen = FALSE
  /\ fpos = 0
  /\ i = 0
  /\ current_path = filepath
  /\ writes = <<>>
  /\ flushes = 0
  /\ fsyncs = 0
  /\ passes_done = 0
  /\ progress = <<>>
  /\ renames = <<>>
  /\ removed = <<>>
  /\ self = 1
  /\ other = <<>>
  /\ app = NoApp

(* lines 71-72: if not os.path.isfile(filepath): return False *)
Validate ==
  /\ pc = "idle"
  /\ IF IsFile(dir[filepath])
       THEN pc' = "getsize" /\ result' = result
       ELSE pc' = "done" /\ result' = "False"
  /\ UNCHANGED <<args, dir, data, failed_at, locals, handle, chain, passlog,
                 passes_done, calls>>

(* lines 74-75: file_size, passes; line 78 enters the first pass *)
GetSize ==
  /\ pc = "getsize"
  /\ file_size' = Len(data)
  /\ passes' = PassesFor(method)
  /\ pass_num' = 0
  /\ pc' = "open"
  /\ UNCHANGED <<args, dir, data, result, failed_at, bytes_written, current_chunk,
                 pattern, handle, chain, passlog, passes_done, calls>>

(* variant: the loop body is entered before the first loop test *)
OpenPassBodyFirst ==
  /\ pc = "open"
  /\ IsFile(dir[filepath])
  /\ fopen' = TRUE
  /\ fpos' = 0
  /\ bytes_written' = 0
  /\ writes' = <<>>
  /\ flushes' = 0
  /\ fsyncs' = 0
  /\ pc' = "write"
  /\ UNCHANGED <<args, dir, data, result, failed_at, file_size, passes, pass_num,
                 current_chunk, pattern, chain, passes_done, calls>>

(* lines 79-82: open(filepath, "r+b"), bytes_written = 0, first loop test *)
OpenPass ==
  /\ pc = "open"
  /\ IsFile(dir[filepath])
  /\ fopen' = TRUE
  /\ fpos' = 0
  /\ bytes_written' = 0
  /\ writes' = <<>>
  /\ flushes' = 0
  /\ fsyncs' = 0
  /\ pc' = IF 0 < file_size THEN "write" ELSE "close"
  /\ UNCHANGED <<args, dir, data, result, failed_at, file_size, passes, pass_num,
                 current_chunk, pattern, chain, passes_done, calls>>

(* lines 83-88: remaining, current_chunk, generate_pattern, f.write *)
WriteChunk ==
  /\ pc = "write"
  /\ LET len == ChunkLen(chunk_size, file_size, bytes_written) IN
       /\ current_chunk' = len
       /\ \E buf \in generate_pattern(len, pass_num) :
            /\ pattern' = buf
            /\ data' = WriteAt(data, fpos, buf)
       /\ writes' = Append(writes, [off |-> fpos, len |-> len, pass |-> pass_num])
       /\ fpos' = fpos + len
  /\ pc' = "flush"
  /\ UNCHANGED <<args, dir, result, failed_at, file_size, passes, pass_num,
                 bytes_written, fopen, chain, flushes, fsyncs, passes_done, calls>>

(* variant: the durability sync after the flush is left out *)
FlushWithoutSync ==
  /\ pc = "flush"
  /\ flushes' = flushes + 1
  /\ pc' = "progress"
  /\ UNCHANGED <<args, dir, data, result, failed_at, locals, handle, chain, writes,
                 fsyncs, passes_done, calls>>

(* line 89: f.flush() *)
Flush ==
  /\ pc = "flush"
  /\ flushes' = flushes + 1
  /\ pc' = "fsync"
  /\ UNCHANGED <<args, dir, data, result, failed_at, locals, handle, chain, writes,
                 fsyncs, passes_done, calls>>

(* line 90: os.fsync(f.fileno()) *)
Fsync ==
  /\ pc = "fsync"
  /\ fsyncs' = fsyncs + 1
  /\ pc' = "progress"
  /\ UNCHANGED <<args, dir, data, result, failed_at, locals, handle, chain, writes,
                 flushes, passes_done, calls>>

(* variant: bytes_written is not advanced by the chunk just written *)
ProgressNoAdvance ==
  /\ pc = "progress"
  /\ bytes_written' = bytes_written
  /\ progress' = IF has_callback
                   THEN Append(progress,
                               TotalProgress(pass_num, passes, file_size, bytes_written'))
                   ELSE progress
  /\ pc' = IF bytes_written' < file_size THEN "write" ELSE "close"
  /\ UNCHANGED <<args, dir, data, result, failed_at, file_size, passes, pass_num,
                 current_chunk, pattern, handle, chain, passlog, passes_done,
                 renames, removed>>

(* lines 92-99: bytes_written += current_chunk, progress_callback, loop test *)
Progress ==
  /\ pc = "progress"
  /\ bytes_written' = bytes_written + current_chunk
  /\ progress' = IF has_callback
                   THEN Append(progress,
                               TotalProgress(pass_num, passes, file_size, bytes_written'))
                   ELSE progress
  /\ pc' = IF bytes_written' < file_size THEN "write" ELSE "close"
  /\ UNCHANGED <<args, dir, data, result, failed_at, file_size, passes, pass_num,
                 current_chunk, pattern, handle, chain, passlog, passes_done,
                 renames, removed>>

(* variant: the rename chain starts after the first pass *)
ClosePassOnce ==
  /\ pc = "close"
  /\ fopen' = FALSE
  /\ passes_done' = passes_done + 1
  /\ pass_num' = pass_num
  /\ pc' = "rename"
  /\ i' = 0
  /\ current_path' = filepath
  /\ UNCHANGED <<args, dir, data, result, failed_at, file_size, passes,
                 bytes_written, current_chunk, pattern, fpos, passlog, calls>>

(* end of the with block (line 79) and next iteration of line 78;          *)
(* lines 102-103 when the last pass is over                                *)
ClosePass ==
  /\ pc = "close"
  /\ fopen' = FALSE
  /\ passes_done' = passes_done + 1
  /\ IF pass_num + 1 < passes
       THEN /\ pass_num' = pass_num + 1
            /\ pc' = "open"
            /\ UNCHANGED chain
       ELSE /\ pass_num' = pass_num
            /\ pc' = "rename"
            /\ i' = 0
            /\ current_path' = filepath
  /\ UNCHANGED <<args, dir, data, result, failed_at, file_size, passes,
                 bytes_written, current_chunk, pattern, fpos, passlog, calls>>

(* variant: the rename loop runs one round short *)
RenameStepOneShort ==
  /\ pc = "rename"
  /\ \E new_name \in RandomNames :
       LET new_path == NewPath(filepath, new_name) IN
         /\ CanRename(dir, current_path, new_path)
         /\ dir' = RenameIn(dir, current_path, new_path)
         /\ renames' = Append(renames, [src |-> current_path, dst |-> new_path])
         /\ current_path' = new_path
  /\ i' = i + 1
  /\ pc' = IF i + 1 < RenameRounds - 1 THEN "rename" ELSE "remove"
  /\ UNCHANGED <<args, data, result, failed_at, locals, handle, passlog,
                 passes_done, progress, removed>>

(* lines 105-109: one iteration of the rename loop *)
RenameStep ==
  /\ pc = "rename"
  /\ \E new_name \in RandomNames :
       LET new_path == NewPath(filepath, new_name) IN
         /\ CanRename(dir, current_path, new_path)
         /\ dir' = RenameIn(dir, current_path, new_path)
         /\ renames' = Append(renames, [src |-> current_path, dst |-> new_path])
         /\ current_path' = new_path
  /\ i' = i + 1
  /\ pc' = IF i + 1 < RenameRounds THEN "rename" ELSE "remove"
  /\ UNCHANGED <<args, data, result, failed_at, locals, handle, passlog,
                 passes_done, progress, removed>>

(* line 112: os.remove(current_path) *)
Remove ==
  /\ pc = "remove"
  /\ CanRemove(dir, current_path)
  /\ dir' = RemoveIn(dir, current_path)
  /\ removed' = Append(removed, current_path)
  /\ pc' = "final"
  /\ UNCHANGED <<args, data, result, failed_at, locals, handle, chain, passlog,
                 passes_done, progress, renames>>

(* variant: success is returned without the final progress update *)
FinishSilent ==
  /\ pc = "final"
  /\ result' = "True"
  /\ pc' = "done"
  /\ UNCHANGED <<args, dir, data, failed_at, locals, handle, chain, passlog,
                 passes_done, calls>>

(* lines 114-117: final progress update, return True *)
Finish ==
  /\ pc = "final"
  /\ progress' = IF has_callback THEN Append(progress, FinalUpdate) ELSE progress
  /\ result' = "True"
  /\ pc' = "done"
  /\ UNCHANGED <<args, dir, data, failed_at, locals, handle, chain, passlog,
                 passes_done, renames, removed>>

(* An OS call of the body that must fail in the current directory: the    *)
(* file to size or open is gone, a rename target cannot be used, the       *)
(* entry to remove is not a regular file.                                  *)
MustRaise ==
  \/ pc = "getsize" /\ dir[filepath] = NoEntry
  \/ pc = "open" /\ ~IsFile(dir[filepath])
  \/ pc = "rename" /\ \E n \in RandomNames :
                         ~CanRename(dir, current_path, NewPath(filepath, n))
  \/ pc = "remove" /\ ~CanRemove(dir, current_path)

(* Steps of the body that can raise: the I/O calls, and the sink calls     *)
(* when the sink given can raise.                                          *)
CanRaise ==
  \/ pc \in {"getsize", "open", "write", "flush", "fsync", "close", "rename", "remove"}
       /\ io_faults
  \/ MustRaise
  \/ pc \in {"progress", "final"} /\ has_callback /\ sink_raises

(* variant: a failure inside a pass is swallowed and the run goes on to   *)
(* the rename chain                                                        *)
ExceptContinue ==
  /\ CanRaise
  /\ failed_at' = pc
  /\ fopen' = FALSE
  /\ IF pc \in {"open", "write", "flush", "fsync"}
       THEN pc' = "rename" /\ result' = result
       ELSE pc' = "done" /\ result' = "False"
  /\ UNCHANGED <<args, dir, data, locals, fpos, chain, passlog, passes_done, calls>>

(* variant: a failed rename or remove moves the entry back to the         *)
(* original path before the call fails                                     *)
ExceptRollsBack ==
  /\ CanRaise
  /\ failed_at' = pc
  /\ fopen' = FALSE
  /\ result' = "False"
  /\ pc' = "done"
  /\ dir' = (IF pc \in {"rename", "remove"} /\ dir[current_path] = TargetFile
               THEN RenameIn(dir, current_path, filepath) ELSE dir)
  /\ UNCHANGED <<args, data, locals, fpos, chain, passlog, passes_done, calls>>

(* variant: an exception of the progress sink is not caught and leaves    *)
(* the call                                                                *)
ExceptSinkEscapes ==
  /\ CanRaise
  /\ failed_at' = pc
  /\ fopen' = FALSE
  /\ result' = (IF pc \in {"progress", "final"} THEN "raised" ELSE "False")
  /\ pc' = "done"
  /\ UNCHANGED <<args, dir, data, locals, fpos, chain, passlog, passes_done, calls>>

(* lines 119-121: except Exception: return False.  Leaving the with block  *)
(* closes the handle.                                                      *)
Except ==
  /\ CanRaise
  /\ failed_at' = pc
  /\ fopen' = FALSE
  /\ result' = "False"
  /\ pc' = "done"
  /\ UNCHANGED <<args, dir, data, locals, fpos, chain, passlog, passes_done, calls>>

Next ==
  \/ Validate
  \/ GetSize
  \/ OpenPass
  \/ WriteChunk
  \/ Flush
  \/ Fsync
  \/ Progress
  \/ ClosePass
  \/ RenameStep
  \/ Remove
  \/ Finish
  \/ Except

Spec == Init /\ [][Next]_vars

(* The call runs on its own thread and every step of the body returns.    *)
LiveSpec == Init /\ [][Next]_vars /\ WF_vars(Next)

TypeOK ==
  /\ pc \in {"none", "idle", "getsize", "open", "write", "flush", "fsync", "progress",
             "close", "rename", "remove", "final", "done"}
  /\ result \in {"pending", "True", "False"}

(* ------------------------------------------------------------------ *)
(* Two calls of shred_file on two threads.  The variables of the body  *)
(* are those of the thread that runs; the other thread's call is kept  *)
(* in other.  The directory is the only state both calls reach.        *)
(* ------------------------------------------------------------------ *)

(* the locals and the file content of the running call *)
Context ==
  [filepath |-> filepath,
   method |-> method,
   chunk_size |-> chunk_size,
   has_callback |-> has_callback,
   data |-> data,
   pc |-> pc,
   result |-> result,
   failed_at |-> failed_at,
   file_size |-> file_size,
   passes |-> passes,
   pass_num |-> pass_num,
   bytes_written |-> bytes_written,
   current_chunk |-> current_chunk,
   pattern |-> pattern,
   fopen |-> fopen,
   fpos |-> fpos,
   i |-> i,
   current_path |-> current_path,
   writes |-> writes,
   flushes |-> flushes,
   fsyncs |-> fsyncs,
   passes_done |-> passes_done,
   progress |-> progress,
   renames |-> renames,
   removed |-> removed]

(* a call that has not started: arguments given, locals as in Init *)
NewCall(path, m, c, cb, content) ==
  [filepath |-> path, method |-> m, chunk_size |-> c, has_callback |-> cb,
   data |-> content, pc |-> "idle", result |-> "pending", failed_at |-> "none",
   file_size |-> 0, passes |-> 0, pass_num |-> 0, bytes_written |-> 0,
   current_chunk |-> 0, pattern |-> <<>>, fopen |-> FALSE, fpos |-> 0, i |-> 0,
   current_path |-> path, writes |-> <<>>, flushes |-> 0, fsyncs |-> 0,
   passes_done |-> 0, progress |-> <<>>, renames |-> <<>>, removed |-> <<>>]

(* the file each thread's call is given *)
FileOf(k) == IF k = 1 THEN TargetFile ELSE OtherFile

ConcMethods == {"quick", "other"}

(* Thread 1 shreds PlainName in HomeDir, thread 2 shreds PlainName2 in    *)
(* the same or in the other directory; nothing else is in the             *)
(* directories and no OS call fails unless the directory forces it.       *)
ConcInit ==
  /\ filepath = join(HomeDir, PlainName)
  /\ method \in ConcMethods
  /\ chunk_size = MaxChunk
  /\ has_callback = TRUE
  /\ io_faults = FALSE
  /\ sink_raises = FALSE
  /\ \E s \in 0..ConcMaxSize : data \in [1..s -> InitialBytes]
  /\ \E d2 \in Parents, m2 \in ConcMethods, s2 \in 0..ConcMaxSize :
       \E content \in [1..s2 -> InitialBytes] :
         /\ dir = [p \in AllPaths |->
                     IF p = filepath THEN FileOf(1)
                     ELSE IF p = join(d2, PlainName2) THEN FileOf(2)
                     ELSE NoEntry]
         /\ other = <<NewCall(join(d2, PlainName2), m2, MaxChunk, TRUE, content)>>
  /\ dir0 = dir
  /\ pc = "idle"
  /\ result = "pending"
  /\ failed_at = "none"
  /\ file_size = 0
  /\ passes = 0
  /\ pass_num = 0
  /\ bytes_written = 0
  /\ current_chunk = 0
  /\ pattern = <<>>
  /\ fopen = FALSE
  /\ fpos = 0
  /\ i = 0
  /\ current_path = filepath
  /\ writes = <<>>
  /\ flushes = 0
  /\ fsyncs = 0
  /\ passes_done = 0
  /\ progress = <<>>
  /\ renames = <<>>
  /\ removed = <<>>
  /\ self = 1
  /\ app = NoApp

(* the scheduler takes the running thread off and puts the other one on *)
Switch ==
  /\ other # <<>>
  /\ other[1].pc # "done"
  /\ self' = 3 - self
  /\ other' = <<Context>>
  /\ filepath' = other[1].filepath
  /\ method' = other[1].method
  /\ chunk_size' = other[1].chunk_size
  /\ has_callback' = other[1].has_callback
  /\ data' = other[1].data
  /\ pc' = other[1].pc
  /\ result' = other[1].result
  /\ failed_at' = other[1].failed_at
  /\ file_size' = other[1].file_size
  /\ passes' = other[1].passes
  /\ pass_num' = other[1].pass_num
  /\ bytes_written' = other[1].bytes_written
  /\ current_chunk' = other[1].current_chunk
  /\ pattern' = other[1].pattern
  /\ fopen' = other[1].fopen
  /\ fpos' = other[1].fpos
  /\ i' = other[1].i
  /\ current_path' = other[1].current_path
  /\ writes' = other[1].writes
  /\ flushes' = other[1].flushes
  /\ fsyncs' = other[1].fsyncs
  /\ passes_done' = other[1].passes_done
  /\ progress' = other[1].progress
  /\ renames' = other[1].renames
  /\ removed' = other[1].removed
  /\ UNCHANGED <<io_faults, sink_raises, dir, dir0, app>>

ConcNext ==
  \/ Validate
  \/ GetSize
  \/ OpenPass
  \/ WriteChunk
  \/ Flush
  \/ Fsync
  \/ Progress
  \/ ClosePass
  \/ RenameStep
  \/ Remove
  \/ Finish
  \/ Except
  \/ Switch

ConcSpec == ConcInit /\ [][ConcNext]_vars

(* ------------------------------------------------------------------ *)
(* The DeldownShredder window (lines 254-687): the handlers of the UI  *)
(* thread, the worker thread of _shred_files and the callbacks it      *)
(* posts with self.after(0, ...).  The worker runs the steps of        *)
(* shred_file above; the update_progress callbacks its sink posts are  *)
(* the entries of progress.                                            *)
(* ------------------------------------------------------------------ *)

(* no call of shred_file is running *)
NoCall ==
  [NewCall(join(HomeDir, PlainName), "secure", DefaultChunk, TRUE, <<>>)
     EXCEPT !.pc = "none"]

(* the variables of the body take the values of call c *)
LoadCall(c) ==
  /\ filepath' = c.filepath
  /\ method' = c.method
  /\ chunk_size' = c.chunk_size
  /\ has_callback' = c.has_callback
  /\ data' = c.data
  /\ pc' = c.pc
  /\ result' = c.result
  /\ failed_at' = c.failed_at
  /\ file_size' = c.file_size
  /\ passes' = c.passes
  /\ pass_num' = c.pass_num
  /\ bytes_written' = c.bytes_written
  /\ current_chunk' = c.current_chunk
  /\ pattern' = c.pattern
  /\ fopen' = c.fopen
  /\ fpos' = c.fpos
  /\ i' = c.i
  /\ current_path' = c.current_path
  /\ writes' = c.writes
  /\ flushes' = c.flushes
  /\ fsyncs' = c.fsyncs
  /\ passes_done' = c.passes_done
  /\ progress' = c.progress
  /\ renames' = c.renames
  /\ removed' = c.removed

(* _add_file (lines 549-568): a path already in the list is not added *)
AddFile(fs, path) ==
  IF \E k \in 1..Len(fs) : fs[k] = path THEN fs ELSE Append(fs, path)

RECURSIVE AddFiles(_, _)
AddFiles(fs, sel) == IF sel = <<>> THEN fs ELSE AddFiles(AddFile(fs, sel[1]), Tail(sel))

(* the two files of the user, and those of them a dialog can return *)
UserFiles == {join(HomeDir, PlainName), join(HomeDir, PlainName2)}
Offered == {p \in UserFiles : IsFile(dir[p])}

(* the orders in which the paths of ps can arrive *)
Orders(ps) ==
  {sel \in UNION {[1..n -> ps] : n \in 0..Cardinality(ps)} :
     \A j, k \in DOMAIN sel : j # k => sel[j] # sel[k]}

Event(ev, item, success) == [ev |-> ev, item |-> item, success |-> success]

NoItem == join(HomeDir, <<>>)

(* the window after __init__ (lines 257-271, 437), the two files on disk *)
BatchInit ==
  /\ filepath = NoCall.filepath
  /\ method = NoCall.method
  /\ chunk_size = NoCall.chunk_size
  /\ has_callback = NoCall.has_callback
  /\ data = NoCall.data
  /\ pc = NoCall.pc
  /\ result = NoCall.result
  /\ failed_at = NoCall.failed_at
  /\ file_size = NoCall.file_size
  /\ passes = NoCall.passes
  /\ pass_num = NoCall.pass_num
  /\ bytes_written = NoCall.bytes_written
  /\ current_chunk = NoCall.current_chunk
  /\ pattern = NoCall.pattern
  /\ fopen = NoCall.fopen
  /\ fpos = NoCall.fpos
  /\ i = NoCall.i
  /\ current_path = NoCall.current_path
  /\ writes = NoCall.writes
  /\ flushes = NoCall.flushes
  /\ fsyncs = NoCall.fsyncs
  /\ passes_done = NoCall.passes_done
  /\ progress = NoCall.progress
  /\ renames = NoCall.renames
  /\ removed = NoCall.removed
  /\ io_faults = TRUE
  /\ sink_raises = FALSE
  /\ dir = [p \in AllPaths |->
              IF p = join(HomeDir, PlainName) THEN TargetFile
              ELSE IF p = join(HomeDir, PlainName2) THEN OtherFile
              ELSE NoEntry]
  /\ dir0 = dir
  /\ self = 1
  /\ other = <<>>
  /\ app = [NoApp EXCEPT !.disk = [f \in {TargetFile, OtherFile} |->
                                     IF f = TargetFile THEN <<65>> ELSE <<>>]]

engine == <<filepath, method, chunk_size, has_callback, data, pc, result, failed_at,
            file_size, passes, pass_num, bytes_written, current_chunk, pattern,
            fopen, fpos, i, current_path, writes, flushes, fsyncs, passes_done,
            progress, renames, removed>>
fixed == <<io_faults, sink_raises, self, other>>

(* the handlers that check self.is_shredding first *)
Handlers == {"_browse_files", "_browse_folder", "_remove_file", "_clear_all",
             "_start_shredding"}

(* the early return of handler h at its check of self.is_shredding (lines  *)
(* 523-524, 537-538, 572-573, 587-588, 630-631): nothing of the window     *)
(* changes; that a handler of this run was turned away is remembered       *)
Rejected(h) == [app EXCEPT !.rejected = (h \in Handlers)]

(* lines 516-519: _on_method_change; the menu is disabled during a run *)
OnMethodChange ==
  /\ app.menu_enabled
  /\ \E v \in MenuValues :
       /\ FirstWord(v) # app.method_var
       /\ app' = [app EXCEPT !.method_var = FirstWord(v)]
  /\ UNCHANGED <<engine, fixed, dir, dir0>>

(* lines 521-533: _browse_files, the dialog returns one or more files *)
BrowseFiles ==
  /\ IF app.is_shredding
       THEN app' = Rejected("_browse_files")
       ELSE \E ps \in SUBSET Offered : \E sel \in Orders(ps) :
              /\ Len(sel) = Cardinality(ps)
              /\ AddFiles(app.files, sel) # app.files
              /\ app' = [app EXCEPT !.files = AddFiles(app.files, sel)]
  /\ UNCHANGED <<engine, fixed, dir, dir0>>

(* lines 535-547: _browse_folder adds every file of the folder, in the    *)
(* order os.walk yields them                                               *)
BrowseFolder ==
  /\ IF app.is_shredding
       THEN app' = Rejected("_browse_folder")
       ELSE \E folder \in Parents :
              LET inside == {p \in Offered : dirname(p) = folder} IN
                \E sel \in Orders(inside) :
                  /\ Len(sel) = Cardinality(inside)
                  /\ AddFiles(app.files, sel) # app.files
                  /\ app' = [app EXCEPT !.files = AddFiles(app.files, sel)]
  /\ UNCHANGED <<engine, fixed, dir, dir0>>

(* lines 570-583: _remove_file *)
RemoveFile ==
  /\ \E k \in 1..Len(app.files) :
       IF app.is_shredding
         THEN app' = Rejected("_remove_file")
         ELSE app' = [app EXCEPT !.files = SubSeq(app.files, 1, k - 1)
                                            \o SubSeq(app.files, k + 1, Len(app.files))]
  /\ UNCHANGED <<engine, fixed, dir, dir0>>

(* _clear_all without the check of lines 587-588 *)
ClearAllDuringRun ==
  /\ app.files # <<>>
  /\ app' = [app EXCEPT !.files = <<>>]
  /\ UNCHANGED <<engine, fixed, dir, dir0>>

(* lines 585-596: _clear_all *)
ClearAll ==
  /\ app.files # <<>>
  /\ IF app.is_shredding
       THEN app' = Rejected("_clear_all")
       ELSE app' = [app EXCEPT !.files = <<>>]
  /\ UNCHANGED <<engine, fixed, dir, dir0>>

(* lines 624-653: _start_shredding, the user confirms; the thread starts  *)
(* and reads the method at line 657                                        *)
StartShredding ==
  /\ app.files # <<>>
  /\ IF app.is_shredding
       THEN app' = Rejected("_start_shredding")
       ELSE app' = [app EXCEPT !.is_shredding = TRUE, !.menu_enabled = FALSE,
                               !.worker = "loop", !.method = FirstWord(app.method_var),
                               !.idx = 1, !.shredded = <<>>, !.returned = <<>>,
                               !.started = {}, !.marked = <<>>, !.completions = 0,
                               !.threads = @ + 1, !.rejected = FALSE]
  /\ UNCHANGED <<engine, fixed, dir, dir0>>

(* lines 659-670: the next item of the loop; its start_shredding is       *)
(* posted and shred_file is entered with the default chunk size           *)
BeginItem ==
  /\ app.worker = "loop"
  /\ app.idx <= Len(app.files)
  /\ LET path == app.files[app.idx] IN
       /\ LoadCall(NewCall(path, app.method, DefaultChunk, TRUE,
                            IF IsFile(dir[path]) THEN app.disk[dir[path]] ELSE <<>>))
       /\ app' = [app EXCEPT !.worker = "call",
                              !.events = Append(@, Event("start", path, FALSE)),
                              !.shredded = Append(@, path)]
  /\ dir0' = dir
  /\ UNCHANGED <<fixed, dir>>

(* the window and the worker once shred_file has returned and line 672    *)
(* has posted mark_complete, the worker going on with item number next    *)
AfterItem(next) ==
  [app EXCEPT !.worker = "loop",
              !.idx = next,
              !.events = Append(@, Event("mark", filepath, result = "True")),
              !.returned = Append(@, [item |-> filepath, success |-> (result = "True")]),
              !.disk = IF IsFile(dir0[filepath])
                         THEN [@ EXCEPT ![dir0[filepath]] = data] ELSE @]

(* EndItem, with the loop left at the first file that fails *)
EndItemStopOnFailure ==
  /\ app.worker = "call"
  /\ pc = "done"
  /\ app' = AfterItem(IF result = "True" THEN app.idx + 1 ELSE Len(app.files) + 1)
  /\ LoadCall(NoCall)
  /\ UNCHANGED <<fixed, dir, dir0>>

(* line 672: shred_file has returned, mark_complete is posted with the    *)
(* result and the item it belongs to; the loop goes to the next item      *)
EndItem ==
  /\ app.worker = "call"
  /\ pc = "done"
  /\ app' = AfterItem(app.idx + 1)
  /\ LoadCall(NoCall)
  /\ UNCHANGED <<fixed, dir, dir0>>

(* EndLoop, with the thread ending and _shredding_complete not posted *)
EndLoopNoUnlock ==
  /\ app.worker = "loop"
  /\ app.idx > Len(app.files)
  /\ app' = [app EXCEPT !.worker = "ended", !.threads = @ - 1]
  /\ UNCHANGED <<engine, fixed, dir, dir0>>

(* line 675: the loop is over, _shredding_complete is posted *)
EndLoop ==
  /\ app.worker = "loop"
  /\ app.idx > Len(app.files)
  /\ app' = [app EXCEPT !.worker = "ended",
                         !.threads = @ - 1,
                         !.events = Append(@, Event("complete", NoItem, FALSE))]
  /\ UNCHANGED <<engine, fixed, dir, dir0>>

(* the UI thread runs the oldest posted callback: FileItem.start_shredding *)
(* (228-232), FileItem.mark_complete (239-251) or _shredding_complete      *)
(* (677-687)                                                               *)
ProcessEvent ==
  /\ app.events # <<>>
  /\ LET e == Head(app.events) IN
       app' = [app EXCEPT
         !.events = Tail(@),
         !.started = IF e.ev = "start" THEN @ \cup {e.item} ELSE @,
         !.marked = IF e.ev = "mark"
                      THEN Append(@, [item |-> e.item, success |-> e.success]) ELSE @,
         !.is_shredding = IF e.ev = "complete" THEN FALSE ELSE @,
         !.menu_enabled = IF e.ev = "complete" THEN TRUE ELSE @,
         !.completions = IF e.ev = "complete" THEN @ + 1 ELSE @]
  /\ UNCHANGED <<engine, fixed, dir, dir0>>

BatchNext ==
  \/ OnMethodChange
  \/ BrowseFiles
  \/ BrowseFolder
  \/ RemoveFile
  \/ ClearAll
  \/ StartShredding
  \/ BeginItem
  \/ EndItem
  \/ EndLoop
  \/ ProcessEvent
  \/ Validate
  \/ GetSize
  \/ OpenPass
  \/ WriteChunk
  \/ Flush
  \/ Fsync
  \/ Progress
  \/ ClosePass
  \/ RenameStep
  \/ Remove
  \/ Finish
  \/ Except

BatchSpec == BatchInit /\ [][BatchNext]_vars

(* the steps of the worker thread: the loop of _shred_files and the body  *)
(* of the shred_file call it is in                                         *)
WorkerStep ==
  \/ BeginItem
  \/ EndItem
  \/ EndLoop
  \/ Validate
  \/ GetSize
  \/ OpenPass
  \/ WriteChunk
  \/ Flush
  \/ Fsync
  \/ Progress
  \/ ClosePass
  \/ RenameStep
  \/ Remove
  \/ Finish
  \/ Except

(* The worker thread keeps running, so each shred_file call returns, and  *)
(* the Tk main loop keeps running the posted callbacks in order; the user *)
(* is not obliged to do anything.                                         *)
BatchLiveSpec ==
  BatchInit /\ [][BatchNext]_vars /\ WF_vars(WorkerStep) /\ WF_vars(ProcessEvent)

(* ------------------------------------------------------------------ *)
(* Properties                                                         *)
(* ------------------------------------------------------------------ *)

(* number of writes of the current pass that cover byte offset o *)
Covering(o) == {k \in 1..Len(writes) : writes[k].off <= o /\ o < writes[k].off + writes[k].len}

RECURSIVE SumLen(_)
SumLen(ws) == IF ws = <<>> THEN 0 ELSE ws[1].len + SumLen(Tail(ws))

(* C1: one overwrite pass writes exactly file_size bytes, as contiguous  *)
(* chunks starting at offset 0, so every offset in [0, file_size) is     *)
(* written exactly once in the pass, whatever the chunk size.            *)
C1_PassWritesEachByteOnce ==
  /\ \A k \in 1..Len(writes) :
       /\ writes[k].len >= 1
       /\ writes[k].off = (IF k = 1 THEN 0 ELSE writes[k - 1].off + writes[k - 1].len)
       /\ writes[k].off + writes[k].len <= file_size
  /\ pc = "close" =>
       /\ SumLen(writes) = file_size
       /\ \A o \in 0..(file_size - 1) : Cardinality(Covering(o)) = 1
       /\ Len(data) = file_size

C1_Witness ==
  /\ pc = "close"
  /\ file_size = 3
  /\ chunk_size = 2
  /\ Len(writes) = 2
  /\ writes[2].len = 1

(* C2: a successful run completes exactly 1 pass for quick, 3 for secure, *)
(* 7 for dod, 35 for gutmann and 3 for any other method string.           *)
C2_PassCountByMethod ==
  result = "True" =>
    /\ method = "quick" => passes_done = 1
    /\ method = "secure" => passes_done = 3
    /\ method = "dod" => passes_done = 7
    /\ method = "gutmann" => passes_done = 35
    /\ method \notin {"quick", "secure", "dod", "gutmann"} => passes_done = 3

C2_Witness == result = "True" /\ method = "other" /\ passes_done = 3 /\ file_size > 0

(* the bytes of buf follow the rule of pass index p *)
FollowsRule(buf, p) ==
  /\ p % 3 = 0 => \A k \in DOMAIN buf : buf[k] = 0
  /\ p % 3 = 1 => \A k \in DOMAIN buf : buf[k] = 255
  /\ p % 3 = 2 => \A k \in DOMAIN buf : buf[k] \in 0..255

C4_NoEntryAfterSuccess ==
  result = "True" =>
    /\ dir[filepath] = NoEntry
    /\ \A k \in 1..Len(renames) : dir[renames[k].dst] = NoEntry

C4_Witness ==
  /\ result = "True"
  /\ filepath.name = HexName
  /\ renames[2].dst = filepath
  /\ renames[3].dst # filepath
  /\ \E p \in AllPaths : dir0[p] = OtherFile /\ p = renames[3].dst

(* the call went through every pass, the three renames and the delete *)
FullyProcessed ==
  /\ passes > 0
  /\ passes_done = passes
  /\ Len(renames) = 3
  /\ Len(removed) = 1

(* C5: shred_file returns success only if all passes, the 3 renames and  *)
(* the delete were done, and every run that did all of them returns      *)
(* success; every other run returns failure.                             *)
C5_SuccessIffFullyProcessed ==
  pc = "done" => (result = "True" <=> FullyProcessed)

(* a <= b for two progress values num/den with positive denominators *)
Leq(a, b) == a.num * b.den <= b.num * a.den

Is100(a) == a.num = 100 * a.den

(* C6: the percentages passed to the progress sink within one call are   *)
(* non-decreasing, from chunk to chunk, from pass to pass and up to the  *)
(* completion update.                                                    *)
C6_ProgressNonDecreasing ==
  \A k \in 1..(Len(progress) - 1) :
    /\ progress[k].den > 0
    /\ progress[k + 1].den > 0
    /\ Leq(progress[k], progress[k + 1])

C6_Witness ==
  /\ result = "True"
  /\ passes = 3
  /\ file_size = 3
  /\ chunk_size = 2
  /\ Len(progress) = 7

(* C7 as stated: whatever the outcome of the call, the last progress     *)
(* update delivered is exactly 100.                                      *)
C7_EveryCallEndsAt100 ==
  pc = "done" => (progress # <<>> /\ Is100(progress[Len(progress)]))

(* C7 amended: a call that returns success and was given a progress sink *)
(* delivers the completion update of exactly 100 as its last update, and *)
(* no update can follow it.                                              *)
C7_SuccessEndsAt100 ==
  (result = "True" /\ has_callback) =>
    /\ progress # <<>>
    /\ progress[Len(progress)] = FinalUpdate
    /\ Is100(progress[Len(progress)])
    /\ ~ENABLED Progress
    /\ ~ENABLED Finish

C7_Witness ==
  /\ result = "True"
  /\ has_callback
  /\ file_size = 0
  /\ Len(progress) = 1

(* C8: a path that is missing or not a regular file at validation time   *)
(* makes the call return failure with no side effect: nothing opened or  *)
(* written, no rename, no delete, no progress update.                    *)
C8_InvalidPathNoSideEffects ==
  dir0[filepath] \in {NoEntry, Directory} =>
    /\ pc \in {"idle", "done"}
    /\ pc = "done" => result = "False"
    /\ dir = dir0
    /\ \A k \in DOMAIN data : data[k] \in InitialBytes
    /\ ~fopen
    /\ writes = <<>> /\ flushes = 0 /\ fsyncs = 0
    /\ renames = <<>>
    /\ removed = <<>>
    /\ progress = <<>>

C8_Witness ==
  /\ pc = "done"
  /\ dir0[filepath] = Directory
  /\ result = "False"

(* C9: when open, write, flush or fsync fails in pass k the call returns *)
(* failure, nothing more is written in pass k, no later pass runs, no    *)
(* rename and no delete is attempted, and the entry is still under the   *)
(* original name.                                                        *)
C9_PassFailureStopsRun ==
  (pc = "done" /\ failed_at \in {"open", "write", "flush", "fsync"}) =>
    /\ result = "False"
    /\ passes_done = pass_num
    /\ \A k \in 1..Len(writes) : writes[k].pass <= pass_num
    /\ failed_at = "open" => \A k \in 1..Len(writes) : writes[k].pass < pass_num
    /\ failed_at # "open" => fpos = SumLen(writes)
    /\ fpos <= file_size
    /\ ~fopen
    /\ renames = <<>>
    /\ removed = <<>>
    /\ dir = dir0
    /\ dir[filepath] = TargetFile
    /\ ~ENABLED Next

C9_Witness ==
  /\ pc = "done"
  /\ failed_at = "write"
  /\ method = "dod"
  /\ pass_num = 1
  /\ Len(writes) = 1
  /\ file_size = 3

(* C10: the file is renamed exactly 3 times on a successful run, each    *)
(* rename inside the original parent directory and from the previous     *)
(* rename's target (the first from the original path), and the one       *)
(* delete comes after the third rename and removes its target.           *)
C10_ThreeRenamesThenDelete ==
  /\ \A k \in 1..Len(renames) :
       /\ renames[k].src = (IF k = 1 THEN filepath ELSE renames[k - 1].dst)
       /\ dirname(renames[k].dst) = dirname(filepath)
  /\ Len(removed) <= 1
  /\ removed # <<>> => (Len(renames) = 3 /\ removed[1] = renames[3].dst)
  /\ result = "True" => (Len(renames) = 3 /\ Len(removed) = 1)

C10_Witness ==
  /\ result = "True"
  /\ renames[1].dst # renames[2].dst
  /\ renames[2].dst # renames[3].dst
  /\ removed = <<renames[3].dst>>

(* name is a 32-character string over 0-9a-f *)
IsHex32(name) == Len(name) = 32 /\ \A k \in 1..Len(name) : name[k] \in 0..15

(* C11 as stated: every rename target is a 32-character lowercase hex    *)
(* string and differs from the original file name, whatever that name.   *)
C11_TargetsHexAndNeverOriginal ==
  \A k \in 1..Len(renames) :
    /\ IsHex32(renames[k].dst.name)
    /\ renames[k].dst.name # filepath.name

(* C11 amended: every rename target is a 32-character lowercase hex      *)
(* string; it differs from the original file name whenever the original  *)
(* name is not itself such a string.                                     *)
C11_TargetsHex ==
  \A k \in 1..Len(renames) :
    /\ IsHex32(renames[k].dst.name)
    /\ ~IsHex32(filepath.name) => renames[k].dst.name # filepath.name

C11_Witness ==
  /\ Len(renames) = 3
  /\ ~IsHex32(filepath.name)
  /\ renames[1].dst # renames[3].dst

(* positions in progress of the updates labelled with pass k of the run *)
PassUpdates(k) == {j \in 1..Len(progress) : progress[j].pass = k}

(* C12 as stated: on a zero-length file every pass delivers exactly one  *)
(* progress update before the renames and the delete succeed.            *)
C12_EmptyFileOneUpdatePerPass ==
  (result = "True" /\ Len(data) = 0 /\ has_callback) =>
    \A k \in 1..passes : Cardinality(PassUpdates(k)) = 1

(* C12 amended: on a zero-length file every pass completes without a     *)
(* write and without a progress update; the 3 renames and the delete     *)
(* then proceed, the only update is the final 100, and a run in which    *)
(* nothing raises returns success.                                       *)
C12_EmptyFileNoPassUpdate ==
  (Len(data) = 0 /\ IsFile(dir0[filepath])) =>
    /\ writes = <<>>
    /\ \A k \in 1..passes : PassUpdates(k) = {}
    /\ (pc = "done" /\ failed_at = "none") => result = "True"
    /\ result = "True" =>
         /\ passes_done = passes
         /\ Len(renames) = 3
         /\ Len(removed) = 1
         /\ progress = (IF has_callback THEN <<FinalUpdate>> ELSE <<>>)

C12_Witness ==
  /\ result = "True"
  /\ Len(data) = 0
  /\ method = "secure"
  /\ has_callback
  /\ passes_done = 3
  /\ progress = <<FinalUpdate>>

(* ceil(a / b) for b > 0 *)
CeilDiv(a, b) == (a + b - 1) \div b

(* C13: a pass performs exactly ceil(S/C) chunk writes, each of length   *)
(* min(C, remaining), and every chunk write is followed by a flush and   *)
(* an fsync that are done before the next write, before that chunk's     *)
(* progress update and before the handle is closed.                      *)
C13_ChunkWritesAndSyncs ==
  failed_at = "none" =>
    /\ \A k \in 1..Len(writes) :
         writes[k].len = Min(chunk_size, file_size - writes[k].off)
    /\ Len(writes) <= CeilDiv(file_size, chunk_size)
    /\ (pc \in {"close", "rename", "remove", "final"} \/ result = "True") =>
         Len(writes) = CeilDiv(file_size, chunk_size)
    /\ pc = "flush" => (flushes = Len(writes) - 1 /\ fsyncs = Len(writes) - 1)
    /\ pc = "fsync" => (flushes = Len(writes) /\ fsyncs = Len(writes) - 1)
    /\ pc \notin {"flush", "fsync"} => (flushes = Len(writes) /\ fsyncs = Len(writes))
    /\ (has_callback /\ passes > 0 /\ pc \in {"write", "flush", "fsync", "progress", "close"}) =>
         Cardinality(PassUpdates(pass_num + 1)) =
           (IF pc \in {"flush", "fsync", "progress"} THEN Len(writes) - 1 ELSE Len(writes))
    /\ pc = "close" => fopen

C13_Witness ==
  /\ pc = "close"
  /\ file_size = 3
  /\ chunk_size = 2
  /\ Len(writes) = 2
  /\ fsyncs = 2
  /\ has_callback

PendingMarks ==
  LET marks == SelectSeq(app.events, LAMBDA e : e.ev = "mark")
  IN [k \in 1..Len(marks) |-> [item |-> marks[k].item, success |-> marks[k].success]]

(* C15: in a batch run over the queued list a failure does not abort the  *)
(* batch: the files are passed to shred_file one at a time in list order, *)
(* each exactly once whatever the earlier results were, and each file is  *)
(* marked complete exactly once, in list order, with the result its own   *)
(* call returned.                                                         *)
C15_BatchShredsEveryFileOnce ==
  app.is_shredding =>
    /\ app.shredded = SubSeq(app.files, 1, Len(app.shredded))
    /\ Len(app.shredded) = (IF app.worker = "call" THEN app.idx ELSE app.idx - 1)
    /\ Len(app.returned) = app.idx - 1
    /\ \A k \in 1..Len(app.returned) : app.returned[k].item = app.files[k]
    /\ \A j, k \in 1..Len(app.shredded) : j # k => app.shredded[j] # app.shredded[k]
    /\ (pc # "none") <=> (app.worker = "call")
    /\ pc # "none" => filepath = app.files[app.idx]
    /\ app.marked \o PendingMarks = app.returned
    /\ app.worker = "ended" =>
         /\ app.shredded = app.files
         /\ Len(app.returned) = Len(app.files)
    /\ (app.worker = "ended" /\ Len(app.events) = 1) => app.marked = app.returned

C15_Witness ==
  /\ app.is_shredding
  /\ app.worker = "ended"
  /\ Len(app.events) = 1
  /\ Len(app.files) = 2
  /\ app.shredded = app.files
  /\ app.marked = <<[item |-> app.files[1], success |-> FALSE],
                    [item |-> app.files[2], success |-> TRUE]>>

(* C16: passes run in increasing order, chunks in increasing offset     *)
(* order, a pass opens the file only after the previous one wrote all    *)
(* bytes and closed its handle, the first rename comes after the last    *)
(* pass, the delete after the third rename, and once the call has         *)
(* returned (success or failure) no further step is possible.            *)
C16_StrictOrder ==
  /\ pc \in {"open", "write", "flush", "fsync", "progress", "close"} =>
       /\ passes_done = pass_num
       /\ pass_num < passes
       /\ renames = <<>> /\ removed = <<>>
  /\ pc \in {"write", "flush", "fsync", "progress", "close"} =>
       /\ fopen
       /\ \A k \in 1..Len(writes) : writes[k].pass = pass_num
  /\ \A k \in 1..(Len(writes) - 1) : writes[k].off < writes[k + 1].off
  /\ (pc = "open" /\ pass_num > 0) =>
       /\ ~fopen
       /\ SumLen(writes) = file_size
       /\ \A k \in 1..Len(writes) : writes[k].pass = pass_num - 1
  /\ (pc \in {"rename", "remove", "final"} \/ renames # <<>>) =>
       /\ passes_done = passes
       /\ ~fopen
       /\ file_size > 0 => (writes # <<>> /\ writes[Len(writes)].pass = passes - 1)
  /\ (pc \in {"final"} \/ removed # <<>>) => Len(renames) = 3
  /\ pc = "remove" => Len(renames) = 3
  /\ pc = "done" => ~ENABLED Next

C16_Witness ==
  /\ result = "True"
  /\ method = "dod"
  /\ file_size = 3
  /\ chunk_size = 1
  /\ Len(writes) = 3
  /\ Len(removed) = 1

(* the value the j-th update of a run must carry: pass and bytes written  *)
(* follow from its position, K updates per pass                           *)
UpdatePass(j) == (j - 1) \div CeilDiv(file_size, chunk_size)
UpdateBytes(j) ==
  Min((((j - 1) % CeilDiv(file_size, chunk_size)) + 1) * chunk_size, file_size)

(* C17: the update after each chunk of pass p of N over S > 0 bytes is   *)
(* ((p*S + bytes_written) / (N*S)) * 100, lies in (0, 100], is exactly   *)
(* 100 after the last chunk of the last pass, and is labelled pass p+1   *)
(* of N.                                                                 *)
C17_ProgressFormula ==
  file_size > 0 =>
    \A j \in 1..Len(progress) :
      progress[j] # FinalUpdate =>
        /\ progress[j].den > 0
        /\ progress[j].num * (passes * file_size) =
             (UpdatePass(j) * file_size + UpdateBytes(j)) * 100 * progress[j].den
        /\ progress[j].num > 0
        /\ progress[j].num <= 100 * progress[j].den
        /\ progress[j].pass = UpdatePass(j) + 1
        /\ progress[j].of = passes
        /\ (UpdatePass(j) = passes - 1 /\ UpdateBytes(j) = file_size) =>
             progress[j].num = 100 * progress[j].den

C17_Witness ==
  /\ pc = "close"
  /\ pass_num = 2
  /\ passes = 3
  /\ file_size = 3
  /\ chunk_size = 2
  /\ Len(progress) = 6
  /\ progress[5].num * 9 = 800 * progress[5].den
  /\ progress[6].num = 100 * progress[6].den

(* the path the entry must be under after j successful renames *)
LastTarget == IF renames = <<>> THEN filepath ELSE renames[Len(renames)].dst

(* C18: a failing rename or remove ends the call with failure at once:   *)
(* no later rename, no remove, no rollback (the entry stays under the    *)
(* last successful rename's target, or the original name), and no final  *)
(* completion update.                                                    *)
C18_RenameFailureAborts ==
  (pc = "done" /\ failed_at \in {"rename", "remove"}) =>
    /\ result = "False"
    /\ removed = <<>>
    /\ failed_at = "rename" => Len(renames) < 3
    /\ failed_at = "remove" => Len(renames) = 3
    /\ Len(renames) = i
    /\ dir[LastTarget] = TargetFile
    /\ \A p \in AllPaths \ {LastTarget} : dir[p] # TargetFile
    /\ \A j \in 1..Len(progress) : progress[j] # FinalUpdate
    /\ ~ENABLED Next

C18_Witness ==
  /\ pc = "done"
  /\ failed_at = "rename"
  /\ Len(renames) = 2
  /\ LastTarget # filepath
  /\ dir[filepath] = NoEntry
  /\ has_callback

(* C19: in every pass bytes_written grows by at least 1 per iteration,   *)
(* never exceeds file_size and equals file_size when the loop is left,   *)
(* and every call whose steps return eventually returns a result.        *)
C19_LoopsTerminate ==
  /\ [](bytes_written <= file_size)
  /\ [](pc = "close" => bytes_written = file_size)
  /\ [][pc = "progress" => (pc' = "done" \/ bytes_written' >= bytes_written + 1)]_vars
  /\ <>(pc = "done")

C19_Witness ==
  /\ pc = "done"
  /\ result = "True"
  /\ method = "gutmann"
  /\ file_size = 3
  /\ chunk_size = 2

(* the call of thread k, running or not *)
Call(k) == IF self = k THEN Context ELSE other[1]

(* the rename targets thread k's call has used so far *)
Targets(k) == {Call(k).renames[j].dst : j \in 1..Len(Call(k).renames)}

(* what the call of thread k returns and leaves behind when it runs on    *)
(* its own in these directories: success after every pass, 3 renames and  *)
(* the delete, its file overwritten by the last pass and gone from every  *)
(* path                                                                   *)
AsAlone(k) ==
  LET c == Call(k) IN
    /\ c.result = "True"
    /\ c.passes_done = PassesFor(c.method)
    /\ Len(c.renames) = 3
    /\ Len(c.removed) = 1
    /\ Len(c.data) = c.file_size
    /\ \A j \in 1..Len(c.data) :
         c.data[j] \in (IF (c.passes - 1) % 3 = 0 THEN {0}
                        ELSE IF (c.passes - 1) % 3 = 1 THEN {255} ELSE 0..255)
    /\ \A p \in AllPaths : dir[p] # FileOf(k)

C21_OneBatchAndFrozenQueue ==
  /\ [](/\ app.threads \in {0, 1}
        /\ (app.threads = 1) <=> (app.worker \in {"loop", "call"})
        /\ app.threads = 1 => app.is_shredding)
  /\ [][/\ app.is_shredding => /\ app'.files = app.files
                               /\ app'.threads <= app.threads
        /\ (~app.is_shredding /\ app'.is_shredding) =>
             /\ StartShredding
             /\ app.files # <<>>
             /\ app'.threads = 1
        /\ (app.is_shredding /\ ~app'.is_shredding) =>
             /\ ProcessEvent
             /\ Head(app.events).ev = "complete"]_vars

C21_Witness ==
  /\ app.is_shredding
  /\ app.rejected
  /\ app.threads = 1
  /\ app.worker = "call"
  /\ app.idx = 2
  /\ Len(app.files) = 2
  /\ pc = "write"

(* the window right after _shredding_complete has run for a batch in      *)
(* which every queued file was marked complete                            *)
Unlocked ==
  /\ ~app.is_shredding
  /\ app.menu_enabled
  /\ app.completions = 1
  /\ app.events = <<>>
  /\ app.threads = 0
  /\ Len(app.marked) = Len(app.files)
  /\ \A k \in 1..Len(app.files) : app.marked[k].item = app.files[k]

(* C22: every started batch completes and unlocks the window: when the    *)
(* worker keeps running and posted callbacks are run in order, a batch    *)
(* that has started leads to every queued file marked complete and        *)
(* is_shredding false with the controls enabled again; _shredding_complete*)
(* runs once per batch, and only after the mark_complete of the last file.*)
C22_BatchCompletesAndUnlocks ==
  /\ app.is_shredding ~> Unlocked
  /\ [](/\ app.completions \in {0, 1}
        /\ app.is_shredding => (app.completions = 0 /\ ~app.menu_enabled))
  /\ [][app'.completions > app.completions =>
          /\ app.marked = app.returned
          /\ Len(app.marked) = Len(app.files)
          /\ ~app'.is_shredding
          /\ app'.menu_enabled]_vars

C22_Witness ==
  /\ Unlocked
  /\ Len(app.files) = 2
  /\ app.marked[1].success
  /\ ~app.marked[2].success
  /\ app.method = "gutmann"

====
